---- MODULE Spec2Model ----
(***************************************************************************)
(* Model of the lineup core of app.py: the eligibility rules and           *)
(* generate_candidates, the backtracking enumerator valid_lineups, and the *)
(* interactive picker that keeps st.session_state.selected_lineup.         *)
(*                                                                         *)
(* Ratings are half-point values 2.5, 3.0, ..., 5.0.  They are modelled by *)
(* twice their value (5, 6, ..., 10), so that a sum of two ratings is the  *)
(* sum of the two integers and 8.0/8.5 is 16/17; sums of half-point floats *)
(* are exact, so nothing is lost.                                          *)
(*                                                                         *)
(* A candidate ("option") is a Python tuple of player names: a sequence of *)
(* one name for a singles round, of two names for a doubles round.         *)
(***************************************************************************)
EXTENDS Integers, Sequences, FiniteSets, TLC

VARIABLES
    players,          \* the roster: sequence of [player_name, player_rating]
    candidates,       \* generate_candidates(players): round -> list of options
    selected_lineup,  \* st.session_state.selected_lineup: round -> option (partial)
    history,          \* the last picker operation, with the selection before it
    pc,               \* position of the computation of the specification at hand
    max_results,      \* valid_lineups: the cap
    results,          \* valid_lineups: the list of recorded lineups
    stack,            \* valid_lineups: the frames of backtrack, innermost last
    current           \* valid_lineups: the partial lineup shared by all frames

vars == <<players, candidates, selected_lineup, history, pc,
          max_results, results, stack, current>>

(***************************************************************************)
(* Bounds of the model.                                                    *)
(***************************************************************************)
\* longest roster handed to generate_candidates
MaxPlayers == 4
\* longest roster of the team shown in the picker
MaxTeam == 3
\* longest candidate list per round handed to valid_lineups
MaxOpts == 2
\* largest cap handed to valid_lineups
MaxCap == 3

\* the names of the players, by roster position
PlayerNames ==
    <<"Amy", "Beth", "Cam", "Dee", "Eve", "Fay", "Gus", "Hal", "Ida", "Jon",
      "Kim", "Lee", "Max", "Ned", "Oda", "Pam", "Quin", "Ray", "Sue", "Tom">>

\* the ratings 2.5, 3.0, 3.5, 4.0, 4.5, 5.0, doubled
Ratings == {5, 6, 7, 8, 9, 10}

\* the roster Amy 4.0, Beth 4.5, Cam 3.5, Dee 3.0
ScenarioRoster ==
    <<[player_name |-> "Amy", player_rating |-> 8],
      [player_name |-> "Beth", player_rating |-> 9],
      [player_name |-> "Cam", player_rating |-> 7],
      [player_name |-> "Dee", player_rating |-> 6]>>

\* the rosters of exactly n uniquely named players
RostersOfLen(n) ==
    { [i \in 1..n |-> [player_name |-> PlayerNames[i], player_rating |-> f[i]]] :
        f \in [1..n -> Ratings] }

\* the rosters of at most n uniquely named players
RostersUpTo(n) == UNION { RostersOfLen(k) : k \in 0..n }

(***************************************************************************)
(* Eligibility rules.                                                      *)
(***************************************************************************)
eligible_s1(r) == r \in {8, 9}
eligible_s2(r) == r \in {6, 7}
\* a slip: the rule of S2 copied for S3
eligible_s3_like_s2(r) == r \in {6, 7}

eligible_s3(r) == r = 6
\* a slip: 8.5 forgotten
eligible_d1_only_8(r1, r2) == r1 + r2 \in {16}

eligible_d1(r1, r2) == r1 + r2 \in {16, 17}
eligible_d2_d3(r1, r2) == r1 + r2 \in {14, 15}
eligible_d4_d5(r1, r2) == r1 + r2 \in {12, 13}

\* rounds = ["S1", ..., "D5"], the fixed order of the slots
rounds == <<"S1", "S2", "S3", "D1", "D2", "D3", "D4", "D5">>

Slots == { rounds[i] : i \in 1..Len(rounds) }

\* set(option): the players of a tuple
PlayerSet(option) == { option[i] : i \in 1..Len(option) }

(***************************************************************************)
(* generate_candidates.                                                    *)
(***************************************************************************)
\* (p["player_name"],) for each p of a filtered roster
name_tuples(kept) == [k \in 1..Len(kept) |-> <<kept[k].player_name>>]

\* s1 = [(p["player_name"],) for p in singles if eligible_s1(p["player_rating"])]
s1_list(singles) ==
    LET keep(p) == eligible_s1(p.player_rating)
    IN  name_tuples(SelectSeq(singles, keep))

\* s2 = [(p["player_name"],) for p in singles if eligible_s2(p["player_rating"])]
s2_list(singles) ==
    LET keep(p) == eligible_s2(p.player_rating)
    IN  name_tuples(SelectSeq(singles, keep))

\* s3 = [(p["player_name"],) for p in singles if eligible_s3(p["player_rating"])]
s3_list(singles) ==
    LET keep(p) == eligible_s3(p.player_rating)
    IN  name_tuples(SelectSeq(singles, keep))

\* itertools.combinations(singles, 2) as index pairs <<i, j>>, i < j, in the
\* order the iterator yields them: from position <<i, j>> onwards, that is the
\* pairs <<i, j>>, ..., <<i, n>> and then those of the first indices after i
RECURSIVE combinations_from(_, _, _)
combinations_from(n, i, j) ==
    IF i >= n THEN << >>
    ELSE [k \in 1..(n + 1 - j) |-> <<i, j + k - 1>>]
            \o combinations_from(n, i + 1, i + 2)

\* a slip: the pairs of a product with i # j, higher index first
combinations_reversed(n) ==
    LET c == combinations_from(n, 1, 2)
    IN  [k \in 1..Len(c) |-> <<c[Len(c) + 1 - k][2], c[Len(c) + 1 - k][1]>>]

\* a slip: itertools.combinations_with_replacement, which pairs a player with
\* themselves too
combinations_with_replacement(n) ==
    LET c == combinations_from(n + 1, 1, 2)
    IN  [k \in 1..Len(c) |-> <<c[k][1], c[k][2] - 1>>]

combinations(n) == combinations_from(n, 1, 2)

\* a slip: the pair reaches d2 only
append_d2_only(acc, pair) == [acc EXCEPT !.D2 = Append(@, pair)]

\* d2.append(pair); d3.append(pair)
append_d2_d3(acc, pair) ==
    [acc EXCEPT !.D2 = Append(@, pair), !.D3 = Append(@, pair)]

\* d4.append(pair); d5.append(pair)
append_d4_d5(acc, pair) ==
    [acc EXCEPT !.D4 = Append(@, pair), !.D5 = Append(@, pair)]

\* one iteration of the loop over the combinations
doubles_step(acc, p1, p2) ==
    LET pair == <<p1.player_name, p2.player_name>>
        a1 == IF eligible_d1(p1.player_rating, p2.player_rating)
              THEN [acc EXCEPT !.D1 = Append(@, pair)] ELSE acc
        a2 == IF eligible_d2_d3(p1.player_rating, p2.player_rating)
              THEN append_d2_d3(a1, pair) ELSE a1
        a3 == IF eligible_d4_d5(p1.player_rating, p2.player_rating)
              THEN append_d4_d5(a2, pair) ELSE a2
    IN  a3

\* d1, d2, d3, d4, d5 = [], [], [], [], []
no_doubles == [D1 |-> << >>, D2 |-> << >>, D3 |-> << >>, D4 |-> << >>, D5 |-> << >>]

\* what the iterations number lo to hi of the loop over the combinations
\* append to the lists: what those of the first half append, followed by what
\* those of the second half append
RECURSIVE doubles_loop(_, _, _, _)
doubles_loop(singles, combos, lo, hi) ==
    IF lo > hi THEN no_doubles
    ELSE IF lo = hi
         THEN doubles_step(no_doubles, singles[combos[lo][1]], singles[combos[lo][2]])
         ELSE LET mid == (lo + hi) \div 2
                  a == doubles_loop(singles, combos, lo, mid)
                  b == doubles_loop(singles, combos, mid + 1, hi)
              IN  [D1 |-> a.D1 \o b.D1, D2 |-> a.D2 \o b.D2, D3 |-> a.D3 \o b.D3,
                   D4 |-> a.D4 \o b.D4, D5 |-> a.D5 \o b.D5]

generate_candidates(singles) ==
    LET combos == combinations(Len(singles))
        d == doubles_loop(singles, combos, 1, Len(combos))
    IN  [S1 |-> s1_list(singles),
         S2 |-> s2_list(singles),
         S3 |-> s3_list(singles),
         D1 |-> d.D1, D2 |-> d.D2, D3 |-> d.D3, D4 |-> d.D4, D5 |-> d.D5]

\* the value of a variable a specification does not use
Unused == "unused"

\* the empty dict
EmptyDict == [s \in {} |-> << >>]

\* no picker operation yet
NoHistory == [op |-> "none", round |-> "", before |-> EmptyDict]

(***************************************************************************)
(* SpecGen: generate_candidates applied to every roster of at most         *)
(* MaxPlayers players.                                                     *)
(***************************************************************************)
InitGen ==
    /\ players \in RostersUpTo(MaxPlayers)
    /\ candidates = Unused
    /\ selected_lineup = EmptyDict
    /\ history = NoHistory
    /\ pc = "generate"
    /\ max_results = 0
    /\ results = << >>
    /\ stack = << >>
    /\ current = EmptyDict

GenerateCandidates ==
    /\ pc = "generate"
    /\ candidates' = generate_candidates(players)
    /\ pc' = "generated"
    /\ UNCHANGED <<players, selected_lineup, history, max_results, results,
                   stack, current>>

NextGen == GenerateCandidates

SpecGen == InitGen /\ [][NextGen]_vars

(***************************************************************************)
(* The interactive picker.  Every click reruns the script: the roster of   *)
(* the selected team is read, generate_candidates is applied to it, and    *)
(* the handler of the clicked widget changes selected_lineup.              *)
(*                                                                         *)
(* Spec follows one session on the roster of one team, any roster of at    *)
(* most MaxTeam players: the widgets it covers are the option buttons, the *)
(* Clear buttons and Reset All Selections.  Choosing another team in the   *)
(* selectbox (line 161) is not an action of Spec.                          *)
(***************************************************************************)
\* a slip: only the pairs are counted, the 1-tuples of the singles are not
get_used_players_pairs_only(lineup) ==
    UNION { PlayerSet(lineup[r]) : r \in { q \in DOMAIN lineup : Len(lineup[q]) = 2 } }

\* get_used_players(), of the selection lineup
get_used_players(lineup) ==
    UNION { PlayerSet(lineup[r]) : r \in DOMAIN lineup }

\* a slip: every option counts as available
is_available_always(option, lineup) == TRUE

\* is_available(option), against the selection lineup
is_available(option, lineup) ==
    (PlayerSet(option) \cap get_used_players(lineup)) = {}

\* a slip: the candidates are offered without the availability filter
available_options_unfiltered(round_name, lineup) == candidates[round_name]

\* a slip: only the first available option gets a button
available_options_first_only(round_name, lineup) ==
    LET avail(opt) == is_available(opt, lineup)
        all == SelectSeq(candidates[round_name], avail)
    IN  IF Len(all) = 0 THEN all ELSE <<all[1]>>

\* available_options = [opt for opt in candidates[round_name] if is_available(opt)]
available_options(round_name, lineup) ==
    LET avail(opt) == is_available(opt, lineup)
    IN  SelectSeq(candidates[round_name], avail)

\* a slip: the key is left in place
del_nothing(lineup, round_name) == lineup

\* a slip: the whole selection is dropped
del_all(lineup, round_name) == [r \in {} |-> << >>]

\* del st.session_state.selected_lineup[round_name]
del_round(lineup, round_name) ==
    [r \in DOMAIN lineup \ {round_name} |-> lineup[r]]

\* st.session_state.selected_lineup[round_name] = option
set_round(lineup, round_name, option) ==
    [r \in DOMAIN lineup \cup {round_name} |->
        IF r = round_name THEN option ELSE lineup[r]]

\* the handler of an option button
click_option(lineup, round_name, option) ==
    LET is_selected == round_name \in DOMAIN lineup /\ lineup[round_name] = option
    IN  IF is_selected
        THEN IF round_name \in DOMAIN lineup
             THEN del_round(lineup, round_name) ELSE lineup
        ELSE set_round(lineup, round_name, option)

\* history after the operation op on round_name: the operation and the selection
\* before it; a Clear that directly follows a select of the same round is
\* recorded as "select_clear" with the selection before that select
Record(op, round_name) ==
    IF op = "clear" /\ history.op = "select" /\ history.round = round_name
    THEN [op |-> "select_clear", round |-> round_name, before |-> history.before]
    ELSE [op |-> op, round |-> round_name, before |-> selected_lineup]

InitPicker ==
    /\ players \in RostersUpTo(MaxTeam)
    /\ candidates = generate_candidates(players)
    /\ selected_lineup = EmptyDict
    /\ history = NoHistory
    /\ pc = "picker"
    /\ max_results = 0
    /\ results = << >>
    /\ stack = << >>
    /\ current = EmptyDict

\* the i-th offered option of a round is clicked
ClickOption ==
    \E round_name \in Slots :
      \E i \in 1..Len(available_options(round_name, selected_lineup)) :
        LET option == available_options(round_name, selected_lineup)[i]
        IN  /\ selected_lineup' = click_option(selected_lineup, round_name, option)
            /\ history' = Record("select", round_name)
            /\ candidates' = generate_candidates(players)
            /\ UNCHANGED <<players, pc, max_results, results, stack, current>>

\* the Clear button of a round that holds a selection is clicked
ClickClear ==
    \E round_name \in DOMAIN selected_lineup :
        /\ selected_lineup' = del_round(selected_lineup, round_name)
        /\ history' = Record("clear", round_name)
        /\ candidates' = generate_candidates(players)
        /\ UNCHANGED <<players, pc, max_results, results, stack, current>>

\* Reset All Selections is clicked
ResetAll ==
    /\ selected_lineup' = EmptyDict
    /\ history' = Record("reset", "")
    /\ candidates' = generate_candidates(players)
    /\ UNCHANGED <<players, pc, max_results, results, stack, current>>

Next == ClickOption \/ ClickClear \/ ResetAll

Spec == InitPicker /\ [][Next]_vars

\* the same session on the roster Amy 4.0, Beth 4.5, Cam 3.5, Dee 3.0
InitScenario ==
    /\ players = ScenarioRoster
    /\ candidates = generate_candidates(players)
    /\ selected_lineup = EmptyDict
    /\ history = NoHistory
    /\ pc = "picker"
    /\ max_results = 0
    /\ results = << >>
    /\ stack = << >>
    /\ current = EmptyDict

SpecScenario == InitScenario /\ [][Next]_vars

(***************************************************************************)
(* The picker with the team selectbox.  players_info.xlsx is read on every *)
(* rerun and does not change during the session; it holds the two teams of *)
(* TeamFile.  The selectbox starts on the first team.                      *)
(***************************************************************************)
\* the rows of players_info.xlsx, team by team: Amy 4.0, Beth 4.5, Cam 3.5,
\* Dee 3.0 in the first team, Eve 4.0, Fay 3.0 in the second
TeamFile ==
    <<ScenarioRoster,
      <<[player_name |-> "Eve", player_rating |-> 8],
        [player_name |-> "Fay", player_rating |-> 6]>>>>

\* team_name is teams[default_index]; selected_lineup is initialised to {}
InitTeam ==
    /\ players = TeamFile[1]
    /\ candidates = generate_candidates(players)
    /\ selected_lineup = EmptyDict
    /\ history = NoHistory
    /\ pc = "picker"
    /\ max_results = 0
    /\ results = << >>
    /\ stack = << >>
    /\ current = EmptyDict

\* another team is chosen in the selectbox: the script reruns, players and
\* candidates are recomputed, st.session_state.selected_lineup is kept
SelectTeam ==
    \E t \in 1..Len(TeamFile) :
        /\ TeamFile[t] # players
        /\ players' = TeamFile[t]
        /\ candidates' = generate_candidates(players')
        /\ history' = Record("team", "")
        /\ UNCHANGED <<selected_lineup, pc, max_results, results, stack, current>>

NextTeam == SelectTeam \/ ClickOption \/ ClickClear \/ ResetAll

SpecTeam == InitTeam /\ [][NextTeam]_vars

(***************************************************************************)
(* valid_lineups.  backtrack is modelled call by call: stack holds one     *)
(* frame per active call, with its arguments idx and used, the position i  *)
(* of its loop in candidates[r] and where the call stands: "entry" (the    *)
(* two tests at its head are still to be made), "loop" (at the head of the *)
(* loop) or "call" (waiting for the recursive call to return).  current is *)
(* the one dict all calls share; results is the list of the closure.       *)
(***************************************************************************)
Frame(idx, used) == [idx |-> idx, used |-> used, i |-> 1, at |-> "entry"]

Top == stack[Len(stack)]

Pop == SubSeq(stack, 1, Len(stack) - 1)

SetTop(frame) == [stack EXCEPT ![Len(stack)] = frame]

\* r = rounds[idx], of the innermost call
TopRound == rounds[Top.idx + 1]

\* a slip: the loop walks candidates[r] from its end
TopOptionFromEnd == candidates[TopRound][Len(candidates[TopRound]) + 1 - Top.i]

\* the option the loop of the innermost call is at
TopOption == candidates[TopRound][Top.i]

\* a slip: the base case is met one slot early
is_complete_early(idx) == idx >= Len(rounds) - 1

\* idx == len(rounds)
is_complete(idx) == idx = Len(rounds)

\* a slip: the loop stays on the option it is at
same_position(i) == i

\* the loop moves on to the next option of candidates[r]
next_position(i) == i + 1

\* a slip: the cap is not looked at when a call is entered
cap_never(res, cap) == FALSE

\* a slip: one lineup too many is let through
cap_exceeded(res, cap) == Len(res) > cap

\* len(results) >= max_results
cap_reached(res, cap) == Len(res) >= cap

\* a slip: the players in use are not looked at
never_clashes(option, used) == FALSE

\* set(option) & used
clashes(option, used) == (PlayerSet(option) \cap used) # {}

\* a slip: used |= set(option), which the caller's later iterations still see
used_after_call_in_place(used, option) == used \cup PlayerSet(option)

\* used | set(option) builds a new set: the caller's used is as it was when
\* the recursive call returns
used_after_call(used, option) == used

\* the candidate lists of the slots cut to the given lengths
\* option j of singles slot i is the player at position i + j - 1; option j of
\* the k-th doubles slot is the pair at positions 2k + 1 + j and 2k + 2 + j: the
\* first options of the slots are disjoint, every later option shares a player
\* with the one before it and with the first option of the next slot
PoolOption(slot_index, j) ==
    IF slot_index <= 3
    THEN <<PlayerNames[slot_index + j - 1]>>
    ELSE <<PlayerNames[2 * (slot_index - 3) + 1 + j],
           PlayerNames[2 * (slot_index - 3) + 2 + j]>>

SlotIndex(round_name) == CHOOSE i \in 1..Len(rounds) : rounds[i] = round_name

\* candidate sets with n options per slot, but m options for slot number e
PoolCandidates(n, e, m) ==
    [s \in Slots |->
        [j \in 1..(IF SlotIndex(s) = e THEN m ELSE n) |-> PoolOption(SlotIndex(s), j)]]

PoolInputs ==
    { PoolCandidates(n, e, m) : n \in 0..MaxOpts, e \in 1..Len(rounds), m \in 0..MaxOpts }

\* valid_lineups(candidates, max_results) is about to run, either on the
\* candidates of a roster or on candidate lists given directly
InitEnum ==
    /\ \/ /\ players \in RostersUpTo(MaxTeam)
          /\ candidates = generate_candidates(players)
       \/ /\ players = Unused
          /\ candidates \in PoolInputs
    /\ max_results \in 0..MaxCap
    /\ selected_lineup = EmptyDict
    /\ history = NoHistory
    /\ pc = "start"
    /\ results = << >>
    /\ stack = << >>
    /\ current = EmptyDict

\* results = []; backtrack(0, set(), {})
CallBacktrack ==
    /\ pc = "start"
    /\ results' = << >>
    /\ current' = EmptyDict
    /\ stack' = <<Frame(0, {})>>
    /\ pc' = "running"
    /\ UNCHANGED <<players, candidates, selected_lineup, history, max_results>>

\* if len(results) >= max_results: return
EntryCapReached ==
    /\ pc = "running" /\ stack # << >> /\ Top.at = "entry"
    /\ cap_reached(results, max_results)
    /\ stack' = Pop
    /\ UNCHANGED <<players, candidates, selected_lineup, history, pc,
                   max_results, results, current>>

\* if idx == len(rounds): results.append(current.copy()); return
EntryRecord ==
    /\ pc = "running" /\ stack # << >> /\ Top.at = "entry"
    /\ ~cap_reached(results, max_results)
    /\ is_complete(Top.idx)
    /\ results' = Append(results, current)
    /\ stack' = Pop
    /\ UNCHANGED <<players, candidates, selected_lineup, history, pc,
                   max_results, current>>

\* r = rounds[idx]; the loop over candidates[r] starts
EntryLoop ==
    /\ pc = "running" /\ stack # << >> /\ Top.at = "entry"
    /\ ~cap_reached(results, max_results)
    /\ ~is_complete(Top.idx)
    /\ stack' = SetTop([Top EXCEPT !.at = "loop", !.i = 1])
    /\ UNCHANGED <<players, candidates, selected_lineup, history, pc,
                   max_results, results, current>>

\* the option clashes with used: on to the next option
LoopSkip ==
    /\ pc = "running" /\ stack # << >> /\ Top.at = "loop"
    /\ Top.i <= Len(candidates[TopRound])
    /\ clashes(TopOption, Top.used)
    /\ stack' = SetTop([Top EXCEPT !.i = next_position(@)])
    /\ UNCHANGED <<players, candidates, selected_lineup, history, pc,
                   max_results, results, current>>

\* current[r] = option; backtrack(idx + 1, used | set(option), current)
LoopTake ==
    /\ pc = "running" /\ stack # << >> /\ Top.at = "loop"
    /\ Top.i <= Len(candidates[TopRound])
    /\ ~clashes(TopOption, Top.used)
    /\ current' = set_round(current, TopRound, TopOption)
    /\ stack' = Append(SetTop([Top EXCEPT !.at = "call"]),
                       Frame(Top.idx + 1, Top.used \cup PlayerSet(TopOption)))
    /\ UNCHANGED <<players, candidates, selected_lineup, history, pc,
                   max_results, results>>

\* the recursive call has returned: del current[r], on to the next option
LoopUndo ==
    /\ pc = "running" /\ stack # << >> /\ Top.at = "call"
    /\ current' = del_round(current, TopRound)
    /\ stack' = SetTop([Top EXCEPT !.at = "loop", !.i = next_position(@),
                                   !.used = used_after_call(@, TopOption)])
    /\ UNCHANGED <<players, candidates, selected_lineup, history, pc,
                   max_results, results>>

\* the loop is exhausted: the call returns
LoopEnd ==
    /\ pc = "running" /\ stack # << >> /\ Top.at = "loop"
    /\ Top.i > Len(candidates[TopRound])
    /\ stack' = Pop
    /\ UNCHANGED <<players, candidates, selected_lineup, history, pc,
                   max_results, results, current>>

\* return results
ReturnResults ==
    /\ pc = "running" /\ stack = << >>
    /\ pc' = "done"
    /\ UNCHANGED <<players, candidates, selected_lineup, history,
                   max_results, results, stack, current>>

NextEnum ==
    \/ CallBacktrack
    \/ EntryCapReached
    \/ EntryRecord
    \/ EntryLoop
    \/ LoopSkip
    \/ LoopTake
    \/ LoopUndo
    \/ LoopEnd
    \/ ReturnResults

SpecEnum == InitEnum /\ [][NextEnum]_vars

\* the interpreter runs the call to its end: a step that can be taken is taken
SpecEnumFair == SpecEnum /\ WF_vars(NextEnum)

(***************************************************************************)
(* The enumerator and the picker on one roster: valid_lineups runs on the  *)
(* candidates of a team of 13 players, the fewest a complete lineup needs, *)
(* and the picker is used on the same team once it has returned.           *)
(***************************************************************************)
\* def valid_lineups(candidates, max_results=200)
DefaultCap == 200

\* ratings 4.0, 3.5, 3.0, 7.0, 1.0, 6.5, 1.0, 6.5, 1.5, 5.0, 1.5, 4.0, 2.0
FullRatings == <<8, 7, 6, 14, 2, 13, 2, 13, 3, 10, 3, 8, 4>>

\* a team of 13 players
FullRoster ==
    [i \in 1..Len(FullRatings) |->
        [player_name |-> PlayerNames[i], player_rating |-> FullRatings[i]]]

\* the inputs: the team of 13 with the default cap, and teams of one player
\* with the cap 0
AgreeInputs ==
    { <<FullRoster, DefaultCap>> } \cup { <<roster, 0>> : roster \in RostersOfLen(1) }

InitAgree ==
    /\ \E input \in AgreeInputs :
          /\ players = input[1]
          /\ max_results = input[2]
    /\ candidates = generate_candidates(players)
    /\ selected_lineup = EmptyDict
    /\ history = NoHistory
    /\ pc = "start"
    /\ results = << >>
    /\ stack = << >>
    /\ current = EmptyDict

\* the handlers of the picker as in ClickOption, ClickClear and ResetAll, used
\* once valid_lineups has returned; no record of the last operation is kept,
\* and the rerun computes candidates from the same players: the same lists
ClickOptionAfter ==
    /\ pc = "done"
    /\ \E round_name \in Slots :
         \E i \in 1..Len(available_options(round_name, selected_lineup)) :
           LET option == available_options(round_name, selected_lineup)[i]
           IN  selected_lineup' = click_option(selected_lineup, round_name, option)
    /\ UNCHANGED <<players, candidates, history, pc, max_results, results,
                   stack, current>>

ClickClearAfter ==
    /\ pc = "done"
    /\ \E round_name \in DOMAIN selected_lineup :
          selected_lineup' = del_round(selected_lineup, round_name)
    /\ UNCHANGED <<players, candidates, history, pc, max_results, results,
                   stack, current>>

ResetAllAfter ==
    /\ pc = "done"
    /\ selected_lineup' = EmptyDict
    /\ UNCHANGED <<players, candidates, history, pc, max_results, results,
                   stack, current>>

NextAgree == NextEnum \/ ClickOptionAfter \/ ClickClearAfter \/ ResetAllAfter

SpecAgree == InitAgree /\ [][NextAgree]_vars

(***************************************************************************)
(* valid_lineups on the candidates of teams of about 13 players: the team  *)
(* of 13 of FullRoster, the same team with a 14th player, and the teams of *)
(* 12 it leaves when one player is missing.                                *)
(***************************************************************************)
\* the roster without its i-th row
WithoutRow(roster, i) ==
    [k \in 1..(Len(roster) - 1) |-> IF k < i THEN roster[k] ELSE roster[k + 1]]

\* the team of 13 and a 14th player rated 4.5
FullRosterAndOne ==
    Append(FullRoster,
           [player_name |-> PlayerNames[Len(FullRoster) + 1], player_rating |-> 9])

SquadRosters ==
    {FullRoster, FullRosterAndOne}
        \cup { WithoutRow(FullRoster, i) : i \in 1..Len(FullRoster) }

\* valid_lineups(generate_candidates(players), max_results) is about to run
InitSquad ==
    /\ players \in SquadRosters
    /\ candidates = generate_candidates(players)
    /\ max_results \in {MaxCap, DefaultCap}
    /\ selected_lineup = EmptyDict
    /\ history = NoHistory
    /\ pc = "start"
    /\ results = << >>
    /\ stack = << >>
    /\ current = EmptyDict

SpecSquad == InitSquad /\ [][NextEnum]_vars

(***************************************************************************)
(* Claims about generate_candidates (checked under SpecGen).               *)
(***************************************************************************)
Generated == pc = "generated"

\* the roster position of a name
RosterIndex(name) == CHOOSE i \in 1..Len(players) : players[i].player_name = name

RosterNames == { players[i].player_name : i \in 1..Len(players) }

RatingOf(name) == players[RosterIndex(name)].player_rating

\* how often a list holds a tuple with exactly the players ps
Occurrences(list, ps) ==
    Cardinality({ k \in 1..Len(list) : PlayerSet(list[k]) = ps })

\* a singles list holds exactly the players whose rating is in allowed, once each
SinglesExactly(list, allowed) ==
    /\ \A k \in 1..Len(list) :
          /\ Len(list[k]) = 1
          /\ list[k][1] \in RosterNames
          /\ RatingOf(list[k][1]) \in allowed
    /\ \A n \in RosterNames :
          RatingOf(n) \in allowed => Occurrences(list, {n}) = 1

\* a doubles list holds exactly the unordered pairs of two distinct players whose
\* rating sum is in allowed, once each
DoublesExactly(list, allowed) ==
    /\ \A k \in 1..Len(list) :
          /\ Len(list[k]) = 2
          /\ list[k][1] \in RosterNames
          /\ list[k][2] \in RosterNames
          /\ list[k][1] # list[k][2]
          /\ RatingOf(list[k][1]) + RatingOf(list[k][2]) \in allowed
    /\ \A a \in RosterNames : \A b \in RosterNames \ {a} :
          RatingOf(a) + RatingOf(b) \in allowed => Occurrences(list, {a, b}) = 1

\* C2: for every roster of uniquely named players with ratings 2.5..5.0,
\* generate_candidates returns for each slot exactly the eligible options, each
\* once: S1 the players rated 4.0/4.5, S2 those rated 3.0/3.5, S3 those rated
\* 3.0; D1 the unordered pairs with rating sum 8.0/8.5, D2 and D3 those with
\* sum 7.0/7.5, D4 and D5 those with sum 6.0/6.5; and nothing else.
C2_ExactlyTheEligible ==
    Generated =>
        /\ DOMAIN candidates = Slots
        /\ SinglesExactly(candidates.S1, {8, 9})
        /\ SinglesExactly(candidates.S2, {6, 7})
        /\ SinglesExactly(candidates.S3, {6})
        /\ DoublesExactly(candidates.D1, {16, 17})
        /\ DoublesExactly(candidates.D2, {14, 15})
        /\ DoublesExactly(candidates.D3, {14, 15})
        /\ DoublesExactly(candidates.D4, {12, 13})
        /\ DoublesExactly(candidates.D5, {12, 13})

\* a roster with eligible and ineligible players and pairs for the rules
C2_Witness ==
    /\ Generated
    /\ Len(players) = MaxPlayers
    /\ Len(candidates.S1) = 2
    /\ Len(candidates.S2) = 1
    /\ Len(candidates.D1) = 2
    /\ Len(candidates.D2) = 2
    /\ Len(candidates.D4) = 1

\* C3: for every roster the D2 and D3 lists of generate_candidates are the same
\* sequence, and so are the D4 and D5 lists.
C3_SharedLists ==
    Generated =>
        /\ candidates.D2 = candidates.D3
        /\ candidates.D4 = candidates.D5

C3_Witness ==
    /\ Generated
    /\ Len(candidates.D2) >= 2
    /\ Len(candidates.D4) >= 2
    /\ candidates.D2 # candidates.D4

\* a singles list follows the roster order
SinglesInRosterOrder(list) ==
    \A k \in 1..Len(list) : \A l \in 1..Len(list) :
        k < l => RosterIndex(list[k][1]) < RosterIndex(list[l][1])

\* a doubles list follows the order of combinations(roster, 2)
DoublesInCombinationOrder(list) ==
    /\ \A k \in 1..Len(list) :
          RosterIndex(list[k][1]) < RosterIndex(list[k][2])
    /\ \A k \in 1..Len(list) : \A l \in 1..Len(list) :
          k < l =>
            \/ RosterIndex(list[k][1]) < RosterIndex(list[l][1])
            \/ /\ RosterIndex(list[k][1]) = RosterIndex(list[l][1])
               /\ RosterIndex(list[k][2]) < RosterIndex(list[l][2])

\* C4: generate_candidates preserves the generation order: singles lists are in
\* increasing roster index; in doubles lists every pair has its lower roster
\* index first and the pairs come in lexicographic order of their indices.
C4_GenerationOrder ==
    Generated =>
        /\ \A s \in {"S1", "S2", "S3"} : SinglesInRosterOrder(candidates[s])
        /\ \A s \in {"D1", "D2", "D3", "D4", "D5"} :
              DoublesInCombinationOrder(candidates[s])

\* three pairs in one doubles list, two players in one singles list
C4_Witness ==
    /\ Generated
    /\ Len(candidates.S2) >= 2
    /\ Len(candidates.D4) >= 3

\* C12 as stated: for the roster Amy 4.0, Beth 4.5, Cam 3.5, Dee 3.0,
\* generate_candidates yields S1 = [(Amy,), (Beth,)], S2 = [(Cam,), (Dee,)],
\* S3 = [(Dee,)] and D1 = [(Amy, Beth)], with no other pair in D1.
C12_Scenario ==
    (Generated /\ players = ScenarioRoster) =>
        /\ candidates.S1 = << <<"Amy">>, <<"Beth">> >>
        /\ candidates.S2 = << <<"Cam">>, <<"Dee">> >>
        /\ candidates.S3 = << <<"Dee">> >>
        /\ candidates.D1 = << <<"Amy", "Beth">> >>

\* C12 as amended: for that roster generate_candidates yields the same S1, S2
\* and S3, and D1 = [(Amy, Beth), (Beth, Cam)]: Beth and Cam sum to 8.0.
C12_ScenarioWithBethCam ==
    (Generated /\ players = ScenarioRoster) =>
        /\ candidates.S1 = << <<"Amy">>, <<"Beth">> >>
        /\ candidates.S2 = << <<"Cam">>, <<"Dee">> >>
        /\ candidates.S3 = << <<"Dee">> >>
        /\ candidates.D1 = << <<"Amy", "Beth">>, <<"Beth", "Cam">> >>

\* generate_candidates has run on the roster of the scenario
C12_Witness ==
    /\ Generated
    /\ players = ScenarioRoster
    /\ Len(candidates.D1) = 2

(***************************************************************************)
(* Claims about the interactive picker (checked under Spec).               *)
(***************************************************************************)
\* C1: after any sequence of select, Clear and Reset All from the empty
\* selection, no player appears in the selections of two distinct slots.
C1_DisjointSlots ==
    \A r1 \in DOMAIN selected_lineup : \A r2 \in DOMAIN selected_lineup :
        r1 # r2 =>
            (PlayerSet(selected_lineup[r1]) \cap PlayerSet(selected_lineup[r2])) = {}

\* a pair and a single selected, after a select that found a candidate unavailable
C1_Witness ==
    /\ history.op = "select"
    /\ Cardinality(DOMAIN selected_lineup) >= 2
    /\ \E r \in DOMAIN selected_lineup : Len(selected_lineup[r]) = 2
    /\ \E r \in Slots \ DOMAIN history.before : \E k \in 1..Len(candidates[r]) :
          (PlayerSet(candidates[r][k]) \cap get_used_players(history.before)) # {}

\* the candidates of a round that share a player with the round's own selection
\* and none with the selection of any other round
SharingOwnOnly(round_name) ==
    { k \in 1..Len(candidates[round_name]) :
        LET B == candidates[round_name][k]
        IN  /\ B # selected_lineup[round_name]
            /\ (PlayerSet(B) \cap PlayerSet(selected_lineup[round_name])) # {}
            /\ \A r \in DOMAIN selected_lineup \ {round_name} :
                  (PlayerSet(B) \cap PlayerSet(selected_lineup[r])) = {} }

\* an option is among the offered buttons of a round
Offered(round_name, option) ==
    \E i \in 1..Len(available_options(round_name, selected_lineup)) :
        available_options(round_name, selected_lineup)[i] = option

\* C8: a slot that holds candidate A can be reassigned to a different candidate
\* B of the same slot that shares a player with A, if B shares no player with
\* the candidates held by the other slots: B is offered for that slot.
C8_ReassignSharingOwnPlayer ==
    \A round_name \in DOMAIN selected_lineup :
        \A k \in SharingOwnOnly(round_name) :
            Offered(round_name, candidates[round_name][k])

\* C9: a candidate that is not available (its players intersect the players
\* used by the current selection) is never written into selected_lineup: every
\* step leaves each slot as it was or empties it or gives it a candidate of the
\* slot whose players were all unused before the step.
C9_UnavailableNeverAssigned ==
    [][ \A r \in DOMAIN selected_lineup' :
          (r \notin DOMAIN selected_lineup \/ selected_lineup'[r] # selected_lineup[r])
          => /\ \E k \in 1..Len(candidates[r]) : candidates[r][k] = selected_lineup'[r]
             /\ \A q \in DOMAIN selected_lineup :
                   (PlayerSet(selected_lineup'[r]) \cap PlayerSet(selected_lineup[q])) = {}
      ]_vars

\* a select has just been made while some candidate of another round was
\* unavailable, and that round is still empty
C9_Witness ==
    /\ history.op = "select"
    /\ \E r \in Slots \ DOMAIN selected_lineup : \E k \in 1..Len(candidates[r]) :
          /\ (PlayerSet(candidates[r][k]) \cap get_used_players(history.before)) # {}
          /\ r # history.round

\* C10 as stated: assigning a candidate to a slot and then immediately clearing
\* that slot yields the selection before the assign, also when the slot held a
\* different candidate before the assign.
C10_RoundTrip ==
    history.op = "select_clear" => selected_lineup = history.before

\* C10 as amended: assigning a candidate to a slot and then immediately clearing
\* that slot yields the selection before the assign with that slot emptied: the
\* other slots are as before, and the selection equals the one before the
\* assign exactly if the slot was empty then.
C10_RoundTripEmptiesSlot ==
    history.op = "select_clear" =>
        /\ DOMAIN selected_lineup = DOMAIN history.before \ {history.round}
        /\ \A r \in DOMAIN selected_lineup : selected_lineup[r] = history.before[r]
        /\ (selected_lineup = history.before) <=>
              (history.round \notin DOMAIN history.before)

\* a select and Clear of an empty slot while another slot holds a selection
C10_Witness ==
    /\ history.op = "select_clear"
    /\ history.round \notin DOMAIN history.before
    /\ history.before # EmptyDict
    /\ selected_lineup = history.before

\* C11: toggle: the option a slot currently holds is offered as a button of
\* that slot, and clicking it removes the slot from selected_lineup.
C11_ToggleOffered ==
    \A round_name \in DOMAIN selected_lineup :
        /\ Offered(round_name, selected_lineup[round_name])
        /\ click_option(selected_lineup, round_name, selected_lineup[round_name])
             = del_round(selected_lineup, round_name)

\* the selections a click on an offered option of a round leads to
AfterClickOn(round_name) ==
    { click_option(selected_lineup, round_name,
                   available_options(round_name, selected_lineup)[i]) :
        i \in 1..Len(available_options(round_name, selected_lineup)) }

\* C13: for the roster Amy 4.0, Beth 4.5, Cam 3.5, Dee 3.0, once S1 = (Amy,)
\* has been assigned from the empty selection, (Amy, Beth) cannot be assigned to
\* D1: no click on D1 leads to a selection with it; (Beth, Cam) can be assigned
\* to D1 exactly if its rating sum is 8.0 or 8.5, and the selection then is
\* {S1: (Amy,), D1: (Beth, Cam)}.
C13_ScenarioPicker ==
    /\ selected_lineup = [S1 |-> <<"Amy">>] =>
          /\ ~Offered("D1", <<"Amy", "Beth">>)
          /\ \A l \in AfterClickOn("D1") : l.D1 # <<"Amy", "Beth">>
          /\ Offered("D1", <<"Beth", "Cam">>) <=>
                (RatingOf("Beth") + RatingOf("Cam") \in {16, 17})
          /\ Offered("D1", <<"Beth", "Cam">>) =>
                [S1 |-> <<"Amy">>, D1 |-> <<"Beth", "Cam">>] \in AfterClickOn("D1")
    /\ (history.op = "select" /\ history.round = "D1"
          /\ history.before = [S1 |-> <<"Amy">>]) =>
          selected_lineup = [S1 |-> <<"Amy">>, D1 |-> <<"Beth", "Cam">>]

\* S1 = (Amy,) was assigned and then D1 = (Beth, Cam)
C13_Witness ==
    /\ players = ScenarioRoster
    /\ history.op = "select"
    /\ history.round = "D1"
    /\ history.before = [S1 |-> <<"Amy">>]
    /\ selected_lineup = [S1 |-> <<"Amy">>, D1 |-> <<"Beth", "Cam">>]

\* C19: after any sequence of team selection, select, Clear and Reset All
\* operations, every candidate held in selected_lineup for a slot is in the
\* candidate list generated for that slot from the current team's roster.
C19_HeldAreCurrentCandidates ==
    \A round_name \in DOMAIN selected_lineup :
        \E j \in 1..Len(generate_candidates(players)[round_name]) :
            generate_candidates(players)[round_name][j] = selected_lineup[round_name]

(***************************************************************************)
(* The picker against the enumerator (checked under SpecAgree).            *)
(***************************************************************************)
\* valid_lineups has returned with the cap above the number of valid lineups
AgreeCase == pc = "done" /\ Len(results) < max_results

\* the selection holds nothing that differs from the lineup
WithinLineup(lineup) ==
    \A s \in DOMAIN selected_lineup : selected_lineup[s] = lineup[s]

\* C20: for a fixed roster and a cap above the number of valid lineups, the
\* complete selections the picker reaches from the empty selection are the
\* lineups valid_lineups returns: a selection with all 8 slots filled is one
\* of the returned lineups, and from every selection that lies within a
\* returned lineup a click on any open slot can assign that lineup's candidate
\* for the slot, so that every returned lineup is reached slot by slot.
C20_PickerAgreesWithEnumerator ==
    AgreeCase =>
        /\ DOMAIN selected_lineup = Slots =>
              \E k \in 1..Len(results) : results[k] = selected_lineup
        /\ \A s \in Slots \ DOMAIN selected_lineup :
              LET after == AfterClickOn(s)
              IN  \A k \in 1..Len(results) :
                      WithinLineup(results[k]) =>
                          set_round(selected_lineup, s, results[k][s]) \in after

\* the picker has put together the last of several returned lineups
C20_Witness ==
    /\ AgreeCase
    /\ Len(results) >= 2
    /\ selected_lineup = results[Len(results)]
    /\ selected_lineup # results[1]

(***************************************************************************)
(* Claims about valid_lineups (checked under SpecEnum).                    *)
(***************************************************************************)
\* valid_lineups has returned
Done == pc = "done"

\* every choice of one list position per slot, from slot number i on
RECURSIVE ChoicesFrom(_)
ChoicesFrom(i) ==
    IF i > Len(rounds) THEN { << >> }
    ELSE { <<j>> \o t : j \in 1..Len(candidates[rounds[i]]), t \in ChoicesFrom(i + 1) }

AllChoices == ChoicesFrom(1)

\* the candidate a choice takes for slot number i
Chosen(c, i) == candidates[rounds[i]][c[i]]

\* the choices whose player sets are pairwise disjoint
ValidChoices ==
    { c \in AllChoices :
        \A i \in 1..Len(rounds) : \A j \in 1..Len(rounds) :
            i < j => (PlayerSet(Chosen(c, i)) \cap PlayerSet(Chosen(c, j))) = {} }

\* the lineup of a choice
LineupOf(c) == [s \in Slots |-> Chosen(c, SlotIndex(s))]

Min(a, b) == IF a <= b THEN a ELSE b

\* C5: for every candidate set and every cap max_results >= 0, valid_lineups
\* returns at most max_results lineups.
C5_AtMostCap ==
    Done => Len(results) <= max_results

\* the cap cut the result short: there are more valid lineups than the cap
C5_Witness ==
    /\ Done
    /\ max_results > 0
    /\ Len(results) = max_results
    /\ Cardinality(ValidChoices) > max_results

\* C6: every lineup returned by valid_lineups maps all 8 slots, each slot's
\* value is a member of that slot's candidate list, and the player sets of any
\* two distinct slots of the lineup are disjoint.
C6_ReturnedLineupsValid ==
    Done =>
        \A k \in 1..Len(results) :
            /\ DOMAIN results[k] = Slots
            /\ \A s \in Slots :
                  \E j \in 1..Len(candidates[s]) : candidates[s][j] = results[k][s]
            /\ \A s \in Slots : \A t \in Slots \ {s} :
                  (PlayerSet(results[k][s]) \cap PlayerSet(results[k][t])) = {}

\* lineups were returned although some choices of candidates clash
C6_Witness ==
    /\ Done
    /\ Len(results) >= 2
    /\ AllChoices # ValidChoices

\* C7: valid_lineups enumerates all complete lineups up to the cap: with N the
\* number of choices of one candidate per slot (by list position) whose player
\* sets are pairwise disjoint, the result has exactly min(N, max_results)
\* entries, and when N <= max_results every such choice is in the result.
C7_AllUpToCap ==
    Done =>
        /\ Len(results) = Min(Cardinality(ValidChoices), max_results)
        /\ Cardinality(ValidChoices) <= max_results =>
              \A c \in ValidChoices :
                  \E k \in 1..Len(results) : results[k] = LineupOf(c)

\* several valid lineups, all returned below the cap, among clashing choices
C7_Witness ==
    /\ Done
    /\ Cardinality(ValidChoices) >= 2
    /\ Cardinality(ValidChoices) < max_results
    /\ Len(results) = Cardinality(ValidChoices)
    /\ AllChoices # ValidChoices

\* some slot has no candidate
SomeSlotEmpty == \E s \in Slots : Len(candidates[s]) = 0

\* C14: if any of the 8 slots has an empty candidate list, valid_lineups returns
\* an empty list and does not fail: it records nothing and every state before
\* its return has a next step; for the empty roster generate_candidates gives
\* an empty list for every slot, and valid_lineups returns no lineup.
C14_EmptySlotNoLineup ==
    /\ SomeSlotEmpty => (results = << >> /\ (Done \/ ENABLED NextEnum))
    /\ \A s \in Slots : generate_candidates(<< >>)[s] = << >>
    /\ candidates = generate_candidates(<< >>) => results = << >>

\* the search went through all the other slots and found the last one empty
C14_Witness ==
    /\ Done
    /\ max_results > 0
    /\ Len(candidates.D5) = 0
    /\ \A s \in Slots \ {"D5"} : Len(candidates[s]) = MaxOpts
    /\ results = << >>

\* the list position of a candidate of a slot
PositionIn(round_name, option) ==
    CHOOSE j \in 1..Len(candidates[round_name]) : candidates[round_name][j] = option

\* a lineup read as the tuple of its candidates' list positions, in slot order
PositionsOf(lineup) ==
    [i \in 1..Len(rounds) |-> PositionIn(rounds[i], lineup[rounds[i]])]

\* lexicographic order on position tuples
LexLess(a, b) ==
    \E i \in 1..Len(rounds) : (\A k \in 1..(i - 1) : a[k] = b[k]) /\ a[i] < b[i]

\* C15: read as position tuples in slot order, the returned sequence is strictly
\* increasing in lexicographic order, and every valid lineup that is not
\* returned comes after every returned one: the result is the first
\* max_results valid lineups of that order when the cap cuts it short.
C15_DepthFirstOrder ==
    Done =>
        /\ \A k \in 1..(Len(results) - 1) :
              LexLess(PositionsOf(results[k]), PositionsOf(results[k + 1]))
        /\ \A c \in ValidChoices :
              (\A k \in 1..Len(results) : results[k] # LineupOf(c)) =>
                  \A k \in 1..Len(results) : LexLess(PositionsOf(results[k]), c)

\* the cap cut a result of several lineups short
C15_Witness ==
    /\ Done
    /\ Len(results) >= 2
    /\ Len(results) = max_results
    /\ Cardinality(ValidChoices) > max_results
    /\ results[1] # results[2]

\* a call of backtrack has just been entered with the cap already reached
AtCappedEntry ==
    /\ pc = "running" /\ stack # << >> /\ Top.at = "entry"
    /\ Len(results) >= max_results

\* C16: a call of backtrack entered when len(results) >= max_results returns
\* at once, appending nothing and calling nothing (its step removes its frame
\* and leaves results and current alone), and once the cap is reached no step
\* changes the result list.
C16_CapAtEveryEntry ==
    [][ /\ AtCappedEntry =>
              (results' = results /\ current' = current /\ stack' = Pop)
        /\ Len(results) >= max_results => results' = results ]_vars

\* a call below the last slot is entered after the cap was reached by appending
C16_Witness ==
    /\ AtCappedEntry
    /\ max_results > 0
    /\ Top.idx < Len(rounds)
    /\ Len(stack) >= 2

\* the first n slots of the fixed order
FirstSlots(n) == { rounds[k] : k \in 1..n }

\* the players of the candidates a partial lineup holds
PlayersOf(lineup) == UNION { PlayerSet(lineup[s]) : s \in DOMAIN lineup }

\* what the callers of the n-th active call have assigned: each of them waits
\* in its loop at the option it put into current
CallerChoices(n) ==
    [s \in FirstSlots(n - 1) |-> candidates[s][stack[SlotIndex(s)].i]]

\* the arguments of every active call and the shared dict are exactly what the
\* waiting callers assigned
NoLeak ==
    /\ \A k \in 1..Len(stack) :
          /\ stack[k].idx = k - 1
          /\ k < Len(stack) => stack[k].at = "call"
          /\ stack[k].used = PlayersOf(CallerChoices(k))
    /\ stack # << >> =>
          current = CallerChoices(IF Top.at = "call" THEN Len(stack) + 1 ELSE Len(stack))
    /\ (stack # << >> /\ Top.at = "entry") =>
          /\ DOMAIN current = FirstSlots(Top.idx)
          /\ Top.used = PlayersOf(current)
    /\ stack = << >> => current = EmptyDict

\* a call returns: its frame goes, current is as the call found it
ReturnKeepsCurrent == Len(stack') < Len(stack) => current' = current

\* the lineups recorded so far stay as they were recorded
RecordedKept ==
    /\ Len(results') >= Len(results)
    /\ \A k \in 1..Len(results) : results'[k] = results[k]

\* C17: at every entry of backtrack(idx, used, current), current has exactly
\* the keys of the first idx slots and used is the union of the players of its
\* values; current and used of a call are fixed by its waiting callers alone,
\* so they are the same when it returns as when it was entered; the partial
\* assignment is empty when the top-level call has returned; no step alters a
\* lineup already recorded.
C17_UndoNeverLeaks ==
    []NoLeak /\ [][ReturnKeepsCurrent /\ RecordedKept]_vars

\* after an undo the loop is at a sibling option, with a lineup recorded
C17_Witness ==
    /\ stack # << >>
    /\ Top.at = "loop"
    /\ Top.i = 2
    /\ Top.idx >= 3
    /\ Len(results) >= 1
    /\ Top.i <= Len(candidates[TopRound])

\* the n-th active call is at slot index n - 1, at most 8, and its loop is at
\* a position of its slot's list or just past its end
CallsBounded ==
    /\ Len(stack) <= Len(rounds) + 1
    /\ \A k \in 1..Len(stack) :
          /\ stack[k].idx = k - 1
          /\ stack[k].idx <= Len(rounds)
          /\ stack[k].idx < Len(rounds) =>
                stack[k].i \in 1..(Len(candidates[rounds[k]]) + 1)

\* C18: valid_lineups terminates for every candidate set and every cap: each
\* recursive call has a slot index one above its caller's, never above 8,
\* each loop stays within its finite list, and the call returns in the end.
C18_Terminates == []CallsBounded /\ <>Done

\* the whole search ran to its end below the cap, with options to go through
C18_Witness ==
    /\ Done
    /\ Len(results) >= 1
    /\ Len(results) < max_results
    /\ \E s \in Slots : Len(candidates[s]) = MaxOpts
    /\ Cardinality(AllChoices) > Len(results)

\* the names of the roster
SquadNames == { players[i].player_name : i \in 1..Len(players) }

\* C21: every lineup valid_lineups returns on the output of
\* generate_candidates uses exactly 13 distinct players of the roster, one in
\* each singles slot and two in each doubles slot, so that for a roster of
\* fewer than 13 players it returns no lineup.
C21_ThirteenPlayers ==
    /\ \A k \in 1..Len(results) :
          /\ DOMAIN results[k] = Slots
          /\ \A s \in {"S1", "S2", "S3"} : Cardinality(PlayerSet(results[k][s])) = 1
          /\ \A s \in {"D1", "D2", "D3", "D4", "D5"} :
                Cardinality(PlayerSet(results[k][s])) = 2
          /\ PlayersOf(results[k]) \subseteq SquadNames
          /\ Cardinality(PlayersOf(results[k])) = 13
    /\ Len(players) < 13 => results = << >>

\* lineups were returned for a team of 14, each leaving one player out
C21_Witness ==
    /\ Done
    /\ Len(players) = 14
    /\ Len(results) >= 2
    /\ PlayersOf(results[1]) # PlayersOf(results[Len(results)])

====
